---------------------------- MODULE Spec2Model ----------------------------
(***************************************************************************)
(* Model of src/core/angle.ts (module MakerJs.angle).                      *)
(*                                                                         *)
(* Numbers.  An angle in degrees is an integer number of ticks; one        *)
(* rounding step of the external round() is TicksPerStep ticks and one     *)
(* degree is one rounding step, so Deg(360) ticks make a revolution.       *)
(* Arithmetic on ticks is exact: the model is the code read over exact     *)
(* fixed-point numbers, it does not model the rounding error of IEEE       *)
(* doubles.  An angle in radians is a fraction <<n, d>> of pi in lowest    *)
(* terms (d > 0), so that Math.PI stays symbolic and the two conversions   *)
(* are real multiplications and divisions.  A point coordinate is a        *)
(* sign-magnitude pair <<s, m>>, s \in {-1, 1}, so that the negative zero  *)
(* that Math.atan2 tells from the positive one is a value of the model.    *)
(***************************************************************************)
EXTENDS Integers, Sequences, FiniteSets

\* call: the call made, with its arguments; ret, retEqual, retRadians: what it
\* returned, a number of degrees, a boolean or a number of radians
VARIABLES call, ret, retEqual, retRadians, vals, flags

vars == <<call, ret, retEqual, retRadians, vals, flags>>

---------------------------------------------------------------------------
(* Bounds of the model *)

\* ticks per rounding step of round()
TicksPerStep == 2
\* angles are sampled within MaxRev revolutions on either side of 0
MaxRev == 2
\* and within MaxOff ticks of a multiple of ten degrees
MaxOff == 3
\* point coordinates have magnitude at most MaxCoord
MaxCoord == 2
\* ratios are multiples of 1/RatioDen
RatioDen == 2
\* length of a sequence of mirror calls
MaxCalls == 3

---------------------------------------------------------------------------
(* The literals of the source *)

FullTurn == 360
HalfTurn == 180
TurnAndHalf == 540

Deg(d) == d * TicksPerStep

Abs(n) == IF n < 0 THEN -n ELSE n

RECURSIVE Gcd(_, _)
Gcd(m, n) == IF n = 0 THEN m ELSE Gcd(n, m % n)

\* the fraction n/d of pi, in lowest terms
Frac(n, d) == LET g == Gcd(Abs(n), d) IN <<n \div g, d \div g>>

\* Math.PI
PI == <<1, 1>>

\* r1 < r2 and r1 <= r2 on fractions of pi
RadLt(r1, r2) == r1[1] * r2[2] < r2[1] * r1[2]
RadLe(r1, r2) == r1[1] * r2[2] <= r2[1] * r1[2]

\* Math.floor(n / d) for d > 0
Floor(n, d) == n \div d

---------------------------------------------------------------------------
(* External collaborators *)

\* round(n): Math.round(n * places) / places, to the nearest rounding step,
\* a tie going up
round(n) == TicksPerStep * Floor(2 * n + TicksPerStep, 2 * TicksPerStep)

\* a coordinate <<s, m>> is the number s * m; <<-1, 0>> is negative zero
Val(c) == c[1] * c[2]
Coord(v, negZero) == IF v = 0 THEN <<IF negZero THEN -1 ELSE 1, 0>>
                     ELSE <<IF v < 0 THEN -1 ELSE 1, Abs(v)>>
\* unary minus flips the sign, of a zero too
Neg(c) == <<-c[1], c[2]>>
\* a - b in IEEE arithmetic: a zero difference is negative only for (-0) - (+0)
Minus(a, b) == Coord(Val(a) - Val(b), a = <<-1, 0>> /\ b = <<1, 0>>)

\* Math.atan2(y, x), the set of values it may return, as fractions of pi.
\* On the axes and the diagonals the value is exact; a zero y with a
\* negative or negatively-zero x gives pi or -pi by the sign of that zero.
\* For a vector strictly inside an octant the value is irrational: the model
\* lets it be any whole number of ticks strictly inside the octant.
atan2(y, x) ==
    LET yv == Val(y)
        xv == Val(x)
        first == IF Abs(yv) < Abs(xv) THEN 1..(Deg(45) - 1)
                 ELSE IF Abs(yv) = Abs(xv) THEN {Deg(45)}
                 ELSE (Deg(45) + 1)..(Deg(90) - 1)
        ticks == IF yv = 0
                 THEN (IF xv > 0 \/ x = <<1, 0>> THEN {0}
                       ELSE {y[1] * Deg(HalfTurn)})
                 ELSE IF xv = 0 THEN {(IF yv > 0 THEN 1 ELSE -1) * Deg(90)}
                 ELSE IF xv > 0 /\ yv > 0 THEN first
                 ELSE IF xv < 0 /\ yv > 0 THEN {Deg(HalfTurn) - t : t \in first}
                 ELSE IF xv < 0 /\ yv < 0 THEN {t - Deg(HalfTurn) : t \in first}
                 ELSE {-t : t \in first}
    IN  {Frac(t, Deg(HalfTurn)) : t \in ticks}

\* r1 + r2 on fractions of pi
RadAdd(r1, r2) == Frac(r1[1] * r2[2] + r2[1] * r1[2], r1[2] * r2[2])

\* point.subtract(a, b): component-wise a - b
subtract(a, b) == <<Minus(a[1], b[1]), Minus(a[2], b[2])>>

---------------------------------------------------------------------------
(* angle.ts *)

\* noRevolutions with the quotient truncated toward zero instead of floored
noRevolutions_trunc(angleInDegrees) ==
    LET q == Abs(angleInDegrees) \div Deg(FullTurn)
        revolutions == IF angleInDegrees < 0 THEN -q ELSE q
    IN  angleInDegrees - Deg(FullTurn) * revolutions

noRevolutions(angleInDegrees) ==
    LET revolutions == Floor(angleInDegrees, Deg(FullTurn))
    IN  angleInDegrees - Deg(FullTurn) * revolutions

\* areEqual comparing the rounded angles without normalizing them
areEqual_notNormalized(angle1, angle2) ==
    LET a1 == round(angle1)
        a2 == round(angle2)
    IN  a1 = a2 \/ a1 + Deg(FullTurn) = a2 \/ a1 - Deg(FullTurn) = a2

areEqual(angle1, angle2) ==
    LET a1 == noRevolutions(round(angle1))
        a2 == noRevolutions(round(angle2))
    IN  a1 = a2 \/ a1 + Deg(FullTurn) = a2 \/ a1 - Deg(FullTurn) = a2

\* toRadians converting without normalizing first
toRadians_notNormalized(angleInDegrees) ==
    Frac(angleInDegrees, Deg(HalfTurn))

toRadians(angleInDegrees) ==
    Frac(noRevolutions(angleInDegrees), Deg(HalfTurn))

\* angleInRadians * 180.0 / Math.PI; the quotient is exact for every fraction
\* of pi whose denominator divides Deg(180)
toDegrees(angleInRadians) ==
    (angleInRadians[1] * Deg(HalfTurn)) \div angleInRadians[2]

ofArcEnd(arc) ==
    IF arc.endAngle < arc.startAngle
    THEN Deg(FullTurn) + arc.endAngle
    ELSE arc.endAngle

\* measure.arcAngle(arc): the total angular size of the arc
arcAngle(arc) == ofArcEnd(arc) - arc.startAngle

\* ofArcMiddle measuring the sweep back from the end angle
ofArcMiddle_fromEnd(arc, ratio) ==
    arc.endAngle - (arcAngle(arc) * ratio[1]) \div ratio[2]

\* the ratio is the fraction ratio[1] / ratio[2]
ofArcMiddle(arc, ratio) ==
    arc.startAngle + (arcAngle(arc) * ratio[1]) \div ratio[2]

\* ratio = .5
DefaultRatio == <<1, 2>>

\* ofPointInRadians calling Math.atan2(y, x) on the vector as it is
ofPointInRadians_plainAtan(origin, pointToFindAngle) ==
    LET d == subtract(pointToFindAngle, origin)
        x == d[1]
        y == d[2]
    IN  {RadAdd(t, PI) : t \in atan2(y, x)}

\* the values the call may return, one for each value of Math.atan2
ofPointInRadians(origin, pointToFindAngle) ==
    LET d == subtract(pointToFindAngle, origin)
        x == d[1]
        y == d[2]
    IN  {RadAdd(t, PI) : t \in atan2(Neg(y), Neg(x))}

ofPointInDegrees(origin, pointToFindAngle) ==
    {toDegrees(r) : r \in ofPointInRadians(origin, pointToFindAngle)}

ofLineInDegrees(line) ==
    {noRevolutions(toDegrees(r)) :
        r \in ofPointInRadians(line.origin, line.end)}

\* mirror comparing with <= 180 instead of < 180
mirror_inclusive(angleInDegrees, mirrorX, mirrorY) ==
    LET afterY == IF mirrorY THEN Deg(FullTurn) - angleInDegrees
                  ELSE angleInDegrees
        afterX == IF mirrorX
                  THEN (IF afterY <= Deg(HalfTurn) THEN Deg(HalfTurn)
                        ELSE Deg(TurnAndHalf)) - afterY
                  ELSE afterY
    IN  afterX

\* mirror applying the X-mirror before the Y-mirror
mirror_xFirst(angleInDegrees, mirrorX, mirrorY) ==
    LET afterX == IF mirrorX
                  THEN (IF angleInDegrees < Deg(HalfTurn) THEN Deg(HalfTurn)
                        ELSE Deg(TurnAndHalf)) - angleInDegrees
                  ELSE angleInDegrees
        afterY == IF mirrorY THEN Deg(FullTurn) - afterX ELSE afterX
    IN  afterY

\* mirror with the formulas of the two axes exchanged
mirror_axesSwapped(angleInDegrees, mirrorX, mirrorY) ==
    LET afterY == IF mirrorX THEN Deg(FullTurn) - angleInDegrees
                  ELSE angleInDegrees
        afterX == IF mirrorY
                  THEN (IF afterY < Deg(HalfTurn) THEN Deg(HalfTurn)
                        ELSE Deg(TurnAndHalf)) - afterY
                  ELSE afterY
    IN  afterX

mirror(angleInDegrees, mirrorX, mirrorY) ==
    LET afterY == IF mirrorY THEN Deg(FullTurn) - angleInDegrees
                  ELSE angleInDegrees
        afterX == IF mirrorX
                  THEN (IF afterY < Deg(HalfTurn) THEN Deg(HalfTurn)
                        ELSE Deg(TurnAndHalf)) - afterY
                  ELSE afterY
    IN  afterX

---------------------------------------------------------------------------
(* Inputs *)

\* multiples of ten degrees within MaxRev revolutions of 0, and the values
\* up to MaxOff ticks away from them
Bases == {Deg(10 * i) : i \in (-36 * MaxRev)..(36 * MaxRev)}
Offsets == (-MaxOff)..MaxOff
Angles == {b + o : b \in Bases, o \in Offsets}

\* the second angle of a comparison lies within MaxOff ticks of a whole
\* number of half turns away from the first
Deltas ==
    {Deg(HalfTurn) * j + o : j \in (-2 * MaxRev)..(2 * MaxRev), o \in Offsets}

\* arcs start and end within a tick of a multiple of ten degrees; the arcs of
\* ofArcMiddle, which are drawn together with a ratio, within a tick of a
\* multiple of thirty degrees
ArcAngles == {a \in Angles : \E o \in -1..1 : (a - o) % Deg(10) = 0}
Arcs == [startAngle : ArcAngles, endAngle : ArcAngles]
MiddleAngles == {a \in ArcAngles : \E o \in -1..1 : (a - o) % Deg(30) = 0}
MiddleArcs == [startAngle : MiddleAngles, endAngle : MiddleAngles]
Ratios == {<<n, RatioDen>> : n \in (-RatioDen)..(2 * RatioDen)}

\* radians: the fractions of pi within MaxRev turns whose degrees are whole
\* ticks
Radians == {Frac(a, Deg(HalfTurn)) : a \in Angles}

\* coordinates of magnitude at most MaxCoord, both zeros among them
Coords == {<<sg, m>> : sg \in {-1, 1}, m \in 0..MaxCoord}
Points == Coords \X Coords
Lines == [origin : Points, end : Points]

---------------------------------------------------------------------------
(* The caller makes one call of the library; the functions are pure and  *)
(* keep no state, so a call depends on nothing but its arguments.        *)

Idle == call.fn = "none"

Init ==
    /\ call = [fn |-> "none"]
    /\ ret = 0
    /\ retEqual = FALSE
    /\ retRadians = <<0, 1>>
    /\ vals = <<>>
    /\ flags = <<>>

NoRevolutions ==
    /\ Idle
    /\ \E a \in Angles :
        /\ call' = [fn |-> "noRevolutions", a |-> a]
        /\ ret' = noRevolutions(a)
        /\ UNCHANGED <<retEqual, retRadians, vals, flags>>

Mirror ==
    /\ Idle
    /\ \E a \in Angles, mx \in BOOLEAN, my \in BOOLEAN :
        /\ call' = [fn |-> "mirror", a |-> a, mirrorX |-> mx, mirrorY |-> my]
        /\ ret' = mirror(a, mx, my)
        /\ UNCHANGED <<retEqual, retRadians, vals, flags>>

AreEqual ==
    /\ Idle
    /\ \E a \in Angles, d \in Deltas :
        /\ call' = [fn |-> "areEqual", angle1 |-> a, angle2 |-> a + d]
        /\ retEqual' = areEqual(a, a + d)
        /\ UNCHANGED <<ret, retRadians, vals, flags>>

ToRadians ==
    /\ Idle
    /\ \E a \in Angles :
        /\ call' = [fn |-> "toRadians", a |-> a]
        /\ retRadians' = toRadians(a)
        /\ UNCHANGED <<ret, retEqual, vals, flags>>

ToDegrees ==
    /\ Idle
    /\ \E r \in Radians :
        /\ call' = [fn |-> "toDegrees", r |-> r]
        /\ ret' = toDegrees(r)
        /\ UNCHANGED <<retEqual, retRadians, vals, flags>>

OfArcEnd ==
    /\ Idle
    /\ \E arc \in Arcs :
        /\ call' = [fn |-> "ofArcEnd", arc |-> arc]
        /\ ret' = ofArcEnd(arc)
        /\ UNCHANGED <<retEqual, retRadians, vals, flags>>

\* a call with an explicit ratio; the arcs and ratios drawn are those whose
\* result is a whole number of ticks
OfArcMiddle ==
    /\ Idle
    /\ \E arc \in MiddleArcs, ratio \in Ratios :
        /\ (arcAngle(arc) * ratio[1]) % ratio[2] = 0
        /\ call' = [fn |-> "ofArcMiddle", arc |-> arc, ratio |-> ratio,
                    defaulted |-> FALSE]
        /\ ret' = ofArcMiddle(arc, ratio)
        /\ UNCHANGED <<retEqual, retRadians, vals, flags>>

\* a call that leaves the ratio out
OfArcMiddleDefault ==
    /\ Idle
    /\ \E arc \in MiddleArcs :
        /\ (arcAngle(arc) * DefaultRatio[1]) % DefaultRatio[2] = 0
        /\ call' = [fn |-> "ofArcMiddle", arc |-> arc, ratio |-> DefaultRatio,
                    defaulted |-> TRUE]
        /\ ret' = ofArcMiddle(arc, DefaultRatio)
        /\ UNCHANGED <<retEqual, retRadians, vals, flags>>

OfPointInRadians ==
    /\ Idle
    /\ \E origin \in Points, p \in Points :
        /\ call' = [fn |-> "ofPointInRadians", origin |-> origin,
                    pointToFindAngle |-> p]
        /\ retRadians' \in ofPointInRadians(origin, p)
        /\ UNCHANGED <<ret, retEqual, vals, flags>>

OfPointInDegrees ==
    /\ Idle
    /\ \E origin \in Points, p \in Points :
        /\ call' = [fn |-> "ofPointInDegrees", origin |-> origin,
                    pointToFindAngle |-> p]
        /\ ret' \in ofPointInDegrees(origin, p)
        /\ UNCHANGED <<retEqual, retRadians, vals, flags>>

OfLineInDegrees ==
    /\ Idle
    /\ \E line \in Lines :
        /\ call' = [fn |-> "ofLineInDegrees", line |-> line]
        /\ ret' \in ofLineInDegrees(line)
        /\ UNCHANGED <<retEqual, retRadians, vals, flags>>

Next ==
    \/ NoRevolutions
    \/ AreEqual
    \/ ToRadians
    \/ ToDegrees
    \/ OfArcEnd
    \/ OfArcMiddle
    \/ OfArcMiddleDefault
    \/ OfPointInRadians
    \/ OfPointInDegrees
    \/ OfLineInDegrees
    \/ Mirror

Spec == Init /\ [][Next]_vars

---------------------------------------------------------------------------
(* A caller that mirrors an angle again and again, each call fed the       *)
(* result of the one before: vals holds the starting angle and every       *)
(* result so far, flags the <<mirrorX, mirrorY>> of every call.            *)

InitMirror ==
    /\ call = [fn |-> "none"]
    /\ ret = 0
    /\ retEqual = FALSE
    /\ retRadians = <<0, 1>>
    /\ vals \in {<<a>> : a \in Angles}
    /\ flags = <<>>

MirrorAgain ==
    /\ Len(flags) < MaxCalls
    /\ \E mx \in BOOLEAN, my \in BOOLEAN :
        /\ vals' = Append(vals, mirror(vals[Len(vals)], mx, my))
        /\ flags' = Append(flags, <<mx, my>>)
        /\ UNCHANGED <<call, ret, retEqual, retRadians>>

NextMirror == MirrorAgain

SpecMirror == InitMirror /\ [][NextMirror]_vars

---------------------------------------------------------------------------
(* Claims *)

Rev == Deg(FullTurn)
Zero == <<0, 1>>
TwoPi == <<2, 1>>

C2_ArcEndNotBelowStart ==
    call.fn = "ofArcEnd" => ret >= call.arc.startAngle

Straddles(a, b) ==
    \/ round(a) = -TicksPerStep /\ round(b) = 0
    \/ round(b) = -TicksPerStep /\ round(a) = 0

\* C4 as claimed: when one input rounds to one rounding step below 0 and the
\* other rounds to 0, the three-way comparison makes areEqual return true.
C4_StraddlingAnglesAreEqual ==
    (call.fn = "areEqual" /\ Straddles(call.angle1, call.angle2)) =>
        retEqual = TRUE

\* C4 as amended: for such a pair areEqual returns false; both normalized
\* values lie in [0, 360), so neither the +360 nor the -360 comparison ever
\* holds and areEqual is true exactly when the rounded, normalized values are
\* the same number.
C4_StraddlingAnglesDiffer ==
    call.fn = "areEqual" =>
        LET a1 == noRevolutions(round(call.angle1))
            a2 == noRevolutions(round(call.angle2))
        IN  /\ a1 + Rev # a2
            /\ a1 - Rev # a2
            /\ retEqual <=> (a1 = a2)
            /\ Straddles(call.angle1, call.angle2) =>
                   /\ retEqual = FALSE
                   /\ {a1, a2} = {Rev - TicksPerStep, 0}

C4_Witness ==
    /\ call.fn = "areEqual"
    /\ Straddles(call.angle1, call.angle2)
    /\ round(call.angle1) # call.angle1
    /\ retEqual = FALSE

\* C5: mirror(a, false, false) = a; mirror(a, false, true) = 360 - a;
\* mirror(a, true, false) = 180 - a when a < 180 and 540 - a when a >= 180, so
\* that a = 180 gives 360; mirror(30, false, true) = 330,
\* mirror(30, true, false) = 150 and mirror(200, true, false) = 340.
C5_SingleAxisMirror ==
    call.fn = "mirror" =>
        LET a == call.a
            x == call.mirrorX
            y == call.mirrorY
        IN  /\ (~x /\ ~y) => ret = a
            /\ (~x /\ y) => ret = Rev - a
            /\ (x /\ ~y /\ a < Deg(180)) => ret = Deg(180) - a
            /\ (x /\ ~y /\ a >= Deg(180)) => ret = Deg(540) - a
            /\ (x /\ ~y /\ a = Deg(180)) => ret = Deg(360)
            /\ (~x /\ y /\ a = Deg(30)) => ret = Deg(330)
            /\ (x /\ ~y /\ a = Deg(30)) => ret = Deg(150)
            /\ (x /\ ~y /\ a = Deg(200)) => ret = Deg(340)

C5_Witness ==
    /\ call.fn = "mirror"
    /\ call.mirrorX /\ ~call.mirrorY
    /\ call.a = Deg(180)
    /\ ret = Deg(360)

\* C6: with both flags set the Y-mirror is applied before the X-mirror,
\* mirror(a, true, true) = mirror(mirror(a, false, true), true, false), and
\* the order matters: at a = 180 the X-mirror followed by the Y-mirror gives
\* another number.
C6_MirrorYBeforeX ==
    (call.fn = "mirror" /\ call.mirrorX /\ call.mirrorY) =>
        /\ ret = mirror(mirror(call.a, FALSE, TRUE), TRUE, FALSE)
        /\ call.a = Deg(180) =>
               mirror(mirror(call.a, TRUE, FALSE), FALSE, TRUE) # ret

C6_Witness ==
    /\ call.fn = "mirror"
    /\ call.mirrorX /\ call.mirrorY
    /\ call.a = Deg(180)
    /\ ret = Deg(360)
    /\ mirror(mirror(call.a, TRUE, FALSE), FALSE, TRUE) = 0

Dx(origin, end) == Val(subtract(end, origin)[1])
Dy(origin, end) == Val(subtract(end, origin)[2])

\* ofLineInDegrees(line) is the counter-clockwise angle of end - origin from
\* the +x axis, in [0, 360), wherever the origin lies
LineAngleIsDirection ==
    call.fn = "ofLineInDegrees" =>
        LET dx == Dx(call.line.origin, call.line.end)
            dy == Dy(call.line.origin, call.line.end)
        IN  /\ 0 <= ret /\ ret < Rev
            /\ (dx > 0 /\ dy = 0) => ret = 0
            /\ (dx = 0 /\ dy > 0) => ret = Deg(90)
            /\ (dx < 0 /\ dy = 0) => ret = Deg(180)
            /\ (dx = 0 /\ dy < 0) => ret = Deg(270)
            /\ (dx > 0 /\ dy > 0) => (0 < ret /\ ret < Deg(90))
            /\ (dx < 0 /\ dy > 0) => (Deg(90) < ret /\ ret < Deg(180))
            /\ (dx < 0 /\ dy < 0) => (Deg(180) < ret /\ ret < Deg(270))
            /\ (dx > 0 /\ dy < 0) => (Deg(270) < ret /\ ret < Rev)

\* C8 as claimed: ofLineInDegrees(line) is the direction of end - origin in
\* [0, 360) (0, 90, 180, 270 on the axes, strictly between inside a quadrant),
\* computed from ofPointInRadians, whose result lies in [0, 2 pi).
C8_LineAngleFromHalfOpenRadians ==
    /\ LineAngleIsDirection
    /\ call.fn = "ofPointInRadians" =>
           (RadLe(Zero, retRadians) /\ RadLt(retRadians, TwoPi))

\* C8 as amended: the same, but the result of ofPointInRadians lies in the
\* closed interval [0, 2 pi]; it is 2 pi exactly when the y difference is a
\* negative zero and the x difference is positive or a positive zero, which
\* ofLineInDegrees normalizes to 0 and ofPointInDegrees returns as 360.
C8_LineAngleFromClosedRadians ==
    /\ LineAngleIsDirection
    /\ call.fn = "ofPointInRadians" =>
           LET d == subtract(call.pointToFindAngle, call.origin)
           IN  /\ RadLe(Zero, retRadians) /\ RadLe(retRadians, TwoPi)
               /\ (retRadians = TwoPi) <=>
                      (d[2] = <<-1, 0>> /\ (Val(d[1]) > 0 \/ d[1] = <<1, 0>>))
    /\ call.fn = "ofPointInDegrees" =>
           LET d == subtract(call.pointToFindAngle, call.origin)
           IN  /\ 0 <= ret /\ ret <= Rev
               /\ (ret = Rev) <=>
                      (d[2] = <<-1, 0>> /\ (Val(d[1]) > 0 \/ d[1] = <<1, 0>>))

C8_Witness ==
    /\ call.fn = "ofPointInRadians"
    /\ call.origin = <<Coord(0, FALSE), Coord(0, FALSE)>>
    /\ call.pointToFindAngle = <<Coord(1, FALSE), Coord(0, TRUE)>>
    /\ retRadians = TwoPi
    /\ ofLineInDegrees([origin |-> call.origin,
                        end |-> call.pointToFindAngle]) = {0}

\* the ratio of an ofArcMiddle call compared with a whole number
RatioLt(ratio, n) == ratio[1] < n * ratio[2]
RatioGt(ratio, n) == ratio[1] > n * ratio[2]

\* C9: for an arc whose angles are both in [0, 360), ofArcMiddle(arc, 0) is
\* the start angle, ofArcMiddle(arc, 1) is ofArcEnd(arc), the default ratio
\* gives (start + ofArcEnd(arc)) / 2, a ratio in [0, 1] gives a result between
\* the start angle and ofArcEnd(arc), and a ratio outside [0, 1] gives a
\* result outside that interval whenever the sweep is not zero.
C9_ArcMiddleInterpolates ==
    (/\ call.fn = "ofArcMiddle"
     /\ 0 <= call.arc.startAngle /\ call.arc.startAngle < Rev
     /\ 0 <= call.arc.endAngle /\ call.arc.endAngle < Rev) =>
        LET start == call.arc.startAngle
            end == ofArcEnd(call.arc)
            ratio == call.ratio
        IN  /\ (ratio[1] = 0) => ret = start
            /\ (ratio[1] = ratio[2]) => ret = end
            /\ call.defaulted => 2 * ret = start + end
            /\ (~RatioLt(ratio, 0) /\ ~RatioGt(ratio, 1)) =>
                   (start <= ret /\ ret <= end)
            /\ ((RatioLt(ratio, 0) \/ RatioGt(ratio, 1)) /\ end # start) =>
                   (ret < start \/ ret > end)

C9_Witness ==
    /\ call.fn = "ofArcMiddle"
    /\ call.defaulted
    /\ call.arc = [startAngle |-> Deg(330), endAngle |-> Deg(30)]
    /\ ret = Deg(360)

\* v and w differ by a whole number of revolutions
Congruent(v, w) == (v - w) % Rev = 0

\* what one mirror call does to an angle, up to whole revolutions
MirrorClass(a, f) ==
    IF f[1] /\ f[2] THEN a + Deg(180)
    ELSE IF f[1] THEN Deg(180) - a
    ELSE IF f[2] THEN -a
    ELSE a

===========================================================================
